---- MODULE Spec2Model ----
(***************************************************************************)
(* Relayer node core: the prover service (relayer/src/prover/mod.rs) and   *)
(* the light client (relayer/src/light_client/mod.rs).                     *)
(*                                                                         *)
(* Two state machines share this module.  SpecProver runs the prover      *)
(* service (callers, the dispatcher task, the spawned worker tasks, the    *)
(* semaphore); SpecLC runs the light client (bootstrap, next_event).       *)
(* Each specification leaves the other machine's variables untouched.      *)
(* SpecReorg runs process_new_block on headers of any parent hash,         *)
(* SpecVerify the queries of a built client between ticks, SpecMerkle the  *)
(* Merkle verifier on its own, SpecGenerate the proof generator on its     *)
(* own.  FairSpecProver and FairSpecLC add the scheduling the runtime and  *)
(* the event loop give.                                                    *)
(***************************************************************************)
EXTENDS Integers, Sequences, FiniteSets, TLC

VARIABLES
    \* ---- prover service ----
    enabled,            \* config.enabled
    max_concurrent,     \* config.max_concurrent
    available_permits,  \* semaphore.available_permits()
    request_rx,         \* requests queued on the request channel, oldest first
    dispatcher,         \* the dispatcher task: [pc, cur]
    job,                \* per request: state of its spawned worker task
    result,             \* per request: what timeout(generate_proof) produced
    response_rx,        \* per request: messages sent on its reply channel
    caller,             \* per request: state of the generate() call
    permit,             \* per request: its worker owns an OwnedSemaphorePermit
    released,           \* per request: how many times its permit was dropped
    replies,            \* per request: how many sends its reply channel took
    \* ---- light client ----
    headers,            \* LightClient.headers: chain id -> stored headers, oldest first
    finalized,          \* LightClient.finalized: chain id -> finalized block number
    finality_depth,     \* LightClient.finality_depth
    event_rx,           \* events queued on the event channel, oldest first
    lc_pc,              \* where the light client's caller stands
    returned,           \* the event the latest next_event call returned
    tick,               \* per provider: what the latest next_event call did for it
    call                \* the latest call's inputs (and, for a query, its result)

pvars == <<enabled, max_concurrent, available_permits, request_rx, dispatcher,
           job, result, response_rx, caller, permit, released, replies>>

lcvars == <<headers, finalized, finality_depth, event_rx, lc_pc, returned, tick,
            call>>

vars == <<pvars, lcvars>>

(***************************************************************************)
(* Bounds of the model.                                                    *)
(***************************************************************************)
\* number of generate() calls made in a run
NumRequests == 3
\* largest config.max_concurrent tried
MaxConcurrent == 2
\* capacity of the request channel (mpsc::channel(100) in the source, scaled)
RequestCap == 2
\* largest block number a provider reports
MaxHeight == 3
\* number of side chains a provider can switch to
MaxFork == 1
\* the finality depth the client is built with (15 in the source, scaled)
FinalityDepth == 1
\* headers retained per chain (1000 in the source), scaled with the finality
\* depth so that, as in the source, the store a bootstrap builds fits
HeaderCap == 2 * FinalityDepth + 1
\* capacity of the event channel (mpsc::channel(1000) in the source, scaled)
EventCap == 3
\* number of 32-byte words that are not the hash of anything in the model
NumWords == 2
\* longest Merkle proof tried
MaxProof == 2
\* number of different values tried for each byte-array field of a request
NumFieldValues == 2

Requests == 1..NumRequests

NoRequest == 0

\* the two providers, in the order poll_new_blocks asks them
Providers == <<"eth", "arb">>

ProviderSet == {Providers[i] : i \in 1..Len(Providers)}

\* what a next_event call has done for a provider it has not asked yet
NotPolled == "not_polled"

\* no event returned (yet) by next_event
NoEvent == [type |-> "none"]

\* no call made yet
NoCall == [op |-> "none"]

\* the height of a provider whose get_block_number was not reached or failed
NoHeight == -1

\* the light client before LightClient::new has run
LightClientUnbuilt ==
    /\ headers = <<>>
    /\ finalized = <<>>
    /\ finality_depth = FinalityDepth
    /\ event_rx = <<>>
    /\ lc_pc = "new"
    /\ returned = NoEvent
    /\ tick = [p \in ProviderSet |-> NotPolled]
    /\ call = NoCall

(***************************************************************************)
(* Prover service                                                          *)
(***************************************************************************)

\* ProverService::new: a semaphore of max_concurrent permits, an empty request
\* channel, the dispatcher task parked on request_rx.recv().
ProverServiceNew(en, mc) ==
    /\ enabled = en
    /\ max_concurrent = mc
    /\ available_permits = mc
    /\ request_rx = <<>>
    /\ dispatcher = [pc |-> "recv", cur |-> NoRequest]
    /\ job = [r \in Requests |-> "none"]
    /\ result = [r \in Requests |-> "none"]
    /\ response_rx = [r \in Requests |-> <<>>]
    /\ caller = [r \in Requests |-> "idle"]
    /\ permit = [r \in Requests |-> FALSE]
    /\ released = [r \in Requests |-> 0]
    /\ replies = [r \in Requests |-> 0]

InitProver ==
    /\ \E en \in BOOLEAN, mc \in 0..MaxConcurrent : ProverServiceNew(en, mc)
    /\ LightClientUnbuilt

\* a variant that looks at the enabled flag only
IsAvailableWhenEnabled == enabled

\* ProverService::is_available
is_available == enabled /\ available_permits > 0

QueueDepthOfChannel == Len(request_rx)

\* ProverService::queue_depth
queue_depth == max_concurrent - available_permits

GenerateNoDisabledCheck(r) ==
    /\ caller[r] = "idle"
    /\ Len(request_rx) < RequestCap
    /\ request_rx' = Append(request_rx, r)
    /\ caller' = [caller EXCEPT ![r] = "waiting"]
    /\ UNCHANGED lcvars
    /\ UNCHANGED <<enabled, max_concurrent, available_permits, dispatcher,
                   job, result, response_rx, permit, released, replies>>

\* generate(): the disabled check, then the request and its fresh reply channel
\* are sent on the request channel (the send completes only while the channel
\* has room), and the caller awaits response_rx.recv().
Generate(r) ==
    /\ caller[r] = "idle"
    /\ IF ~enabled
       THEN /\ caller' = [caller EXCEPT ![r] = "err_disabled"]
            /\ UNCHANGED request_rx
       ELSE /\ Len(request_rx) < RequestCap
            /\ request_rx' = Append(request_rx, r)
            /\ caller' = [caller EXCEPT ![r] = "waiting"]
    /\ UNCHANGED lcvars
    /\ UNCHANGED <<enabled, max_concurrent, available_permits, dispatcher,
                   job, result, response_rx, permit, released, replies>>

\* generate(): response_rx.recv() returns the reply sent on this call's channel.
GenerateReturn(r) ==
    /\ caller[r] = "waiting"
    /\ response_rx[r] # <<>>
    /\ caller' = [caller EXCEPT ![r] = Head(response_rx[r])]
    /\ response_rx' = [response_rx EXCEPT ![r] = Tail(response_rx[r])]
    /\ UNCHANGED lcvars
    /\ UNCHANGED <<enabled, max_concurrent, available_permits, request_rx,
                   dispatcher, job, result, permit, released, replies>>

\* The future returned by generate() is dropped while it awaits its reply:
\* the receiving half of the reply channel is gone.
GenerateDropped(r) ==
    /\ caller[r] = "waiting"
    /\ caller' = [caller EXCEPT ![r] = "gone"]
    /\ response_rx' = [response_rx EXCEPT ![r] = <<>>]
    /\ UNCHANGED lcvars
    /\ UNCHANGED <<enabled, max_concurrent, available_permits, request_rx,
                   dispatcher, job, result, permit, released, replies>>

\* Dispatcher task: request_rx.recv() yields the oldest queued request.
DispatcherRecv ==
    /\ dispatcher.pc = "recv"
    /\ request_rx # <<>>
    /\ dispatcher' = [pc |-> "acquire", cur |-> Head(request_rx)]
    /\ request_rx' = Tail(request_rx)
    /\ UNCHANGED lcvars
    /\ UNCHANGED <<enabled, max_concurrent, available_permits, job, result,
                   response_rx, caller, permit, released, replies>>

DispatcherAcquireNoWait ==
    /\ dispatcher.pc = "acquire"
    /\ available_permits' = IF available_permits > 0
                            THEN available_permits - 1 ELSE available_permits
    /\ permit' = [permit EXCEPT ![dispatcher.cur] = (available_permits > 0)]
    /\ job' = [job EXCEPT ![dispatcher.cur] = "running"]
    /\ dispatcher' = [pc |-> "recv", cur |-> NoRequest]
    /\ UNCHANGED lcvars
    /\ UNCHANGED <<enabled, max_concurrent, request_rx, result, response_rx,
                   caller, released, replies>>

DispatcherTryAcquire ==
    /\ dispatcher.pc = "acquire"
    /\ IF available_permits > 0
       THEN /\ available_permits' = available_permits - 1
            /\ permit' = [permit EXCEPT ![dispatcher.cur] = TRUE]
            /\ job' = [job EXCEPT ![dispatcher.cur] = "running"]
       ELSE UNCHANGED <<available_permits, permit, job>>
    /\ dispatcher' = [pc |-> "recv", cur |-> NoRequest]
    /\ UNCHANGED lcvars
    /\ UNCHANGED <<enabled, max_concurrent, request_rx, result, response_rx,
                   caller, released, replies>>

\* Dispatcher task: acquire_owned() takes one permit (suspending while none is
\* free), then the worker task owning that permit is spawned.
DispatcherAcquire ==
    /\ dispatcher.pc = "acquire"
    /\ available_permits > 0
    /\ available_permits' = available_permits - 1
    /\ permit' = [permit EXCEPT ![dispatcher.cur] = TRUE]
    /\ job' = [job EXCEPT ![dispatcher.cur] = "running"]
    /\ dispatcher' = [pc |-> "recv", cur |-> NoRequest]
    /\ UNCHANGED lcvars
    /\ UNCHANGED <<enabled, max_concurrent, request_rx, result, response_rx,
                   caller, released, replies>>

\* What timeout(timeout_secs, generate_proof(request)) can produce, mapped by
\* map_err/and_then: Ok(proof), the generator's Err, or the timeout error.
Outcomes == {"proof", "generator_error", "timeout"}

\* Worker task: the timed generator call resolves with outcome o.
WorkerGenerate(r, o) ==
    /\ job[r] = "running"
    /\ job' = [job EXCEPT ![r] = "finished"]
    /\ result' = [result EXCEPT ![r] = o]
    /\ UNCHANGED lcvars
    /\ UNCHANGED <<enabled, max_concurrent, available_permits, request_rx,
                   dispatcher, response_rx, caller, permit, released, replies>>

WorkerSendUnlessTimeout(r) ==
    /\ job[r] = "finished"
    /\ job' = [job EXCEPT ![r] = "replied"]
    /\ IF caller[r] = "gone" \/ result[r] = "timeout"
       THEN UNCHANGED <<response_rx, replies>>
       ELSE /\ response_rx' = [response_rx EXCEPT ![r] = Append(@, result[r])]
            /\ replies' = [replies EXCEPT ![r] = @ + 1]
    /\ UNCHANGED lcvars
    /\ UNCHANGED <<enabled, max_concurrent, available_permits, request_rx,
                   dispatcher, result, caller, permit, released>>

\* a variant whose worker sends on the reply channel of the lowest-numbered
\* waiting caller instead of its own request's
WorkerSendToAnyWaiting(r) ==
    LET waiting == {q \in Requests : caller[q] = "waiting"}
        to == IF waiting = {} THEN r
              ELSE CHOOSE q \in waiting : \A q2 \in waiting : q <= q2
    IN /\ job[r] = "finished"
       /\ job' = [job EXCEPT ![r] = "replied"]
       /\ IF caller[to] = "gone"
          THEN UNCHANGED <<response_rx, replies>>
          ELSE /\ response_rx' = [response_rx EXCEPT ![to] = Append(@, result[r])]
               /\ replies' = [replies EXCEPT ![to] = @ + 1]
       /\ UNCHANGED lcvars
       /\ UNCHANGED <<enabled, max_concurrent, available_permits, request_rx,
                      dispatcher, result, caller, permit, released>>

\* Worker task: response_tx.send(result) puts the result on the request's own
\* reply channel; the error of a send to a dropped receiver is ignored.
WorkerSend(r) ==
    /\ job[r] = "finished"
    /\ job' = [job EXCEPT ![r] = "replied"]
    /\ IF caller[r] = "gone"
       THEN UNCHANGED <<response_rx, replies>>
       ELSE /\ response_rx' = [response_rx EXCEPT ![r] = Append(@, result[r])]
            /\ replies' = [replies EXCEPT ![r] = @ + 1]
    /\ UNCHANGED lcvars
    /\ UNCHANGED <<enabled, max_concurrent, available_permits, request_rx,
                   dispatcher, result, caller, permit, released>>

WorkerDropPermitUnlessTimeout(r) ==
    /\ job[r] = "replied"
    /\ job' = [job EXCEPT ![r] = "done"]
    /\ IF result[r] = "timeout"
       THEN UNCHANGED <<available_permits, permit, released>>
       ELSE /\ available_permits' = available_permits + 1
            /\ permit' = [permit EXCEPT ![r] = FALSE]
            /\ released' = [released EXCEPT ![r] = @ + 1]
    /\ UNCHANGED lcvars
    /\ UNCHANGED <<enabled, max_concurrent, request_rx, dispatcher, result,
                   response_rx, caller, replies>>

\* Worker task: drop(permit) returns the permit to the semaphore.
WorkerDropPermit(r) ==
    /\ job[r] = "replied"
    /\ job' = [job EXCEPT ![r] = "done"]
    /\ available_permits' = available_permits + 1
    /\ permit' = [permit EXCEPT ![r] = FALSE]
    /\ released' = [released EXCEPT ![r] = @ + 1]
    /\ UNCHANGED lcvars
    /\ UNCHANGED <<enabled, max_concurrent, request_rx, dispatcher, result,
                   response_rx, caller, replies>>

NextProver ==
    \/ \E r \in Requests : Generate(r)
    \/ \E r \in Requests : GenerateReturn(r)
    \/ \E r \in Requests : GenerateDropped(r)
    \/ DispatcherRecv
    \/ DispatcherAcquire
    \/ \E r \in Requests, o \in Outcomes : WorkerGenerate(r, o)
    \/ \E r \in Requests : WorkerSend(r)
    \/ \E r \in Requests : WorkerDropPermit(r)

SpecProver == InitProver /\ [][NextProver]_vars

\* The runtime keeps polling the spawned tasks, the timer ends every timed
\* generator call, and a caller that stays in recv() is woken by its reply.
FairSpecProver ==
    /\ SpecProver
    /\ WF_vars(DispatcherRecv)
    /\ WF_vars(DispatcherAcquire)
    /\ \A r \in Requests :
          /\ WF_vars(\E o \in Outcomes : WorkerGenerate(r, o))
          /\ WF_vars(WorkerSend(r))
          /\ WF_vars(WorkerDropPermit(r))
          /\ WF_vars(GenerateReturn(r))

(***************************************************************************)
(* Prover service: properties                                              *)
(***************************************************************************)

\* requests whose worker task is between its spawn and the drop of its permit
InFlight == {r \in Requests : job[r] \in {"running", "finished", "replied"}}

\* requests that generate() placed on the request channel
Accepted == {r \in Requests : caller[r] \notin {"idle", "err_disabled"}}

\* accepted requests for which no worker has been spawned yet
AwaitingPermit == {r \in Accepted : job[r] = "none"}

\* C2: at most max_concurrent jobs own a permit, and every job that runs the
\* generator or delivers its reply owns one.
C2_PermitsBoundJobs ==
    /\ Cardinality({r \in Requests : permit[r]}) <= max_concurrent
    /\ \A r \in InFlight : permit[r]
    /\ Cardinality(InFlight) <= max_concurrent

C2_Witness ==
    /\ max_concurrent = MaxConcurrent
    /\ Cardinality(InFlight) = max_concurrent
    /\ dispatcher.pc = "acquire"
    /\ \E r \in InFlight : job[r] = "replied"

\* C3: an admitted request's permit is dropped exactly once whatever the
\* outcome and whether or not the caller still listens; with no job in flight
\* all max_concurrent permits are free again.
C3_PermitReleasedOnce ==
    /\ \A r \in Requests :
          /\ released[r] <= 1
          /\ job[r] = "done" => (released[r] = 1 /\ ~permit[r])
          /\ job[r] # "done" => released[r] = 0
    /\ available_permits + Cardinality(InFlight) = max_concurrent
    /\ InFlight = {} => available_permits = max_concurrent

C3_Witness ==
    /\ InFlight = {}
    /\ available_permits = max_concurrent
    /\ \E r1, r2, r3 \in Requests :
          /\ job[r1] = "done" /\ result[r1] = "timeout"
          /\ job[r2] = "done" /\ result[r2] = "generator_error"
          /\ job[r3] = "done" /\ result[r3] = "proof" /\ caller[r3] = "gone"
          /\ replies[r3] = 0

\* the dispatcher can take no step: nothing queued, or no permit to acquire
DispatcherQuiescent ==
    /\ ~(dispatcher.pc = "recv" /\ request_rx # <<>>)
    /\ ~(dispatcher.pc = "acquire" /\ available_permits > 0)

\* C6: queue_depth() is the number of in-flight jobs and lies in
\* 0..max_concurrent; with max_concurrent + 1 requests accepted and no
\* generator finished, once the dispatcher has gone as far as it can exactly
\* max_concurrent jobs hold permits and exactly one request waits for a permit.
C6_AdmissionControl ==
    /\ queue_depth = Cardinality(InFlight)
    /\ queue_depth \in 0..max_concurrent
    /\ ( /\ Cardinality(Accepted) = max_concurrent + 1
         /\ \A r \in Requests : job[r] \in {"none", "running"}
         /\ DispatcherQuiescent )
       => /\ Cardinality(InFlight) = max_concurrent
          /\ Cardinality(AwaitingPermit) = 1
          /\ dispatcher.pc = "acquire"
          /\ dispatcher.cur \in AwaitingPermit

C6_Witness ==
    /\ max_concurrent = MaxConcurrent
    /\ Cardinality(Accepted) = max_concurrent + 1
    /\ \A r \in Requests : job[r] \in {"none", "running"}
    /\ DispatcherQuiescent
    /\ queue_depth = max_concurrent
    /\ Cardinality(AwaitingPermit) = 1

\* C7: on a disabled service no call is ever queued, admitted or given a
\* permit; every call made has returned the disabled error and queue_depth()
\* and the free permits are as at construction.
C7_DisabledRejects ==
    ~enabled =>
        /\ request_rx = <<>>
        /\ dispatcher.pc = "recv"
        /\ available_permits = max_concurrent
        /\ queue_depth = 0
        /\ \A r \in Requests :
              /\ caller[r] \in {"idle", "err_disabled"}
              /\ job[r] = "none"
              /\ ~permit[r]

C7_Witness ==
    /\ ~enabled
    /\ max_concurrent > 0
    /\ \A r \in Requests : caller[r] = "err_disabled"

\* C8: once the timed generator call of an admitted request has ended in the
\* timeout error, that request's permit is eventually released and its caller
\* (unless it stopped listening) eventually holds the timeout error; a request
\* waiting at the dispatcher for a permit at that moment is eventually admitted.
C8_TimeoutRepliesAndFrees ==
    /\ \A r \in Requests :
          (job[r] = "finished" /\ result[r] = "timeout")
             ~> ( /\ job[r] = "done" /\ released[r] = 1 /\ ~permit[r]
                  /\ caller[r] \in {"timeout", "gone"} )
    /\ \A r, q \in Requests :
          ( /\ job[r] = "finished" /\ result[r] = "timeout"
            /\ dispatcher.pc = "acquire" /\ dispatcher.cur = q )
             ~> job[q] # "none"

C8_Witness ==
    /\ max_concurrent = 1
    /\ \E r, q \in Requests :
          /\ job[r] = "done" /\ result[r] = "timeout" /\ caller[r] = "timeout"
          /\ job[q] = "running"

\* C9: on an enabled service with max_concurrent >= 1 every accepted request
\* whose caller keeps listening eventually holds a reply; a reply channel
\* takes at most one send, and the reply a caller holds is the one result of
\* its own job.
C9_ExactlyOneReply ==
    /\ [](\A r \in Requests :
             /\ replies[r] <= 1
             /\ Len(response_rx[r]) <= 1
             /\ caller[r] \in Outcomes =>
                   (replies[r] = 1 /\ caller[r] = result[r] /\ response_rx[r] = <<>>))
    /\ \A r \in Requests :
          (max_concurrent >= 1 /\ caller[r] = "waiting")
             ~> caller[r] \in Outcomes \cup {"gone"}

C9_Witness ==
    /\ max_concurrent = 1
    /\ \A r \in Requests : caller[r] \in Outcomes /\ job[r] = "done"
    /\ \E r1, r2 \in Requests : caller[r1] = "proof" /\ caller[r2] = "timeout"

\* the worker of request r has sent its reply
Replied(r) == job[r] \in {"replied", "done"}

\* C18: a reply channel holds, and a caller has observed, only the result of
\* the channel's own request, after that request's worker has sent it; and a
\* send adds its job's result to its own request's channel and to no other.
C18_OwnReplyOnly ==
    /\ [](\A r \in Requests :
            /\ response_rx[r] # <<>>
               => Replied(r) /\ response_rx[r] = <<result[r]>>
            /\ caller[r] \in Outcomes
               => Replied(r) /\ caller[r] = result[r])
    /\ [][\A r \in Requests :
             Len(response_rx'[r]) > Len(response_rx[r])
             => /\ job[r] = "finished"
                /\ job'[r] = "replied"
                /\ response_rx'[r] = Append(response_rx[r], result[r])
                /\ \A q \in Requests \ {r} : response_rx'[q] = response_rx[q]]_vars

\* a later job's reply is on its channel while another job is still running,
\* each caller waiting on its own channel
C18_Witness ==
    \E r1, r2 \in Requests :
        /\ r1 < r2
        /\ job[r1] = "running"
        /\ caller[r1] = "waiting"
        /\ response_rx[r1] = <<>>
        /\ job[r2] = "replied"
        /\ caller[r2] = "waiting"
        /\ response_rx[r2] = <<result[r2]>>

\* the requests whose worker owns a permit
PermitHolders == {r \in Requests : permit[r]}

\* the service as ProverService::new returns it: nothing submitted yet
Fresh ==
    /\ request_rx = <<>>
    /\ \A r \in Requests : caller[r] = "idle" /\ job[r] = "none"

\* C21: is_available is TRUE exactly when the service is enabled and fewer
\* than max_concurrent workers own a permit; a fresh enabled service with
\* max_concurrent >= 1 is available with queue_depth 0; and while
\* max_concurrent workers own permits the service is not available.
C21_IsAvailable ==
    /\ is_available
          = (enabled /\ Cardinality(PermitHolders) < max_concurrent)
    /\ (Fresh /\ enabled /\ max_concurrent >= 1)
          => (is_available /\ queue_depth = 0)
    /\ Cardinality(PermitHolders) = max_concurrent => ~is_available

\* an enabled service all of whose permits are owned by running workers
C21_Witness ==
    /\ enabled
    /\ max_concurrent = MaxConcurrent
    /\ Cardinality(PermitHolders) = max_concurrent
    /\ \A r \in PermitHolders : job[r] = "running"
    /\ ~is_available

(***************************************************************************)
(* Light client                                                            *)
(***************************************************************************)

Heights == 0..MaxHeight

\* The blocks the providers serve.  A block hash is <<number, fork>>.  Chain 0
\* is the main chain; chain f >= 1 shares the main chain's blocks below number
\* f and has its own blocks <<n, f>> from number f on.
ForksAt(n) == {f \in 0..MaxFork : f <= n}

AncestorFork(fork, m) == IF m < fork THEN 0 ELSE fork

ZeroHash == <<-1, 0>>

ParentHash(n, fork) ==
    IF n = 0 THEN ZeroHash ELSE <<n - 1, AncestorFork(fork, n - 1)>>

\* H256 values of the Merkle verifier.  A value is a sequence of numbers: a
\* word <<k>>, k >= 1, or the hash <<0>> \o a \o b of the 64 bytes a || b.
\* The code is prefix-free, so two hashes are equal only for equal inputs
\* (keccak256 taken as collision-free).
Words == {<<k>> : k \in 1..NumWords}

\* keccak256([current.as_bytes(), sibling.as_bytes()].concat())
Keccak256(current, sibling) == <<0>> \o current \o sibling

\* the values a fold of at most n siblings can produce from a word
RECURSIVE Digests(_)
Digests(n) ==
    IF n = 0 THEN Words
    ELSE Digests(n - 1) \cup
         {Keccak256(a, b) : a \in Digests(n - 1), b \in Words}

\* the proofs tried: sequences of at most MaxProof words
Proofs == UNION {[1..n -> Words] : n \in 0..MaxProof}

MerkleFoldSiblingFirst(current, proof, n) ==
    LET f[i \in 0..n] ==
            IF i = 0 THEN current ELSE Keccak256(proof[i], f[i - 1])
    IN f[n]

\* a variant that hashes sibling || current
VerifyMerkleProofSiblingFirst(leaf, proof, root) ==
    MerkleFoldSiblingFirst(leaf, proof, Len(proof)) = root

\* verify_merkle_proof, the loop: current = keccak256(current || sibling) for
\* each sibling in order
RECURSIVE MerkleFold(_, _)
MerkleFold(current, proof) ==
    IF proof = <<>> THEN current
    ELSE MerkleFold(Keccak256(current, Head(proof)), Tail(proof))

\* verify_merkle_proof
verify_merkle_proof(leaf, proof, root) == MerkleFold(leaf, proof) = root

\* One transaction of the block with a given hash and its path to the block's
\* transactions root: blocks low in the chain have shorter paths, so that
\* roots of every depth 0..MaxProof occur.
TxLeaf(hash) == <<1 + (hash[2] % NumWords)>>

TxPath(hash) ==
    [i \in 1..(IF hash[1] < MaxProof THEN hash[1] ELSE MaxProof) |->
        <<1 + ((hash[1] + i) % NumWords)>>]

\* block.transactions_root of the provider's block with that hash
TransactionsRoot(hash) == MerkleFold(TxLeaf(hash), TxPath(hash))

\* StoredHeader built from the provider's block (the state root, the receipts
\* root and the timestamp are copied through and play no part).
StoredHeader(n, hash, parent) ==
    [block_number |-> n, block_hash |-> hash, parent_hash |-> parent,
     transactions_root |-> TransactionsRoot(hash)]

\* the provider's block of chain `fork` at number n
Block(n, fork) == StoredHeader(n, <<n, fork>>, ParentHash(n, fork))

NoBlock == StoredHeader(0, ZeroHash, ZeroHash)

\* the chain id a provider's get_chainid returns
ChainId(p) == IF p = "eth" THEN 1 ELSE 42161

SaturatingSub(a, b) == IF a >= b THEN a - b ELSE 0

Last(seq) == seq[Len(seq)]

Front(seq) == SubSeq(seq, 1, Len(seq) - 1)

\* HashMap::insert
Insert(map, k, v) == [x \in (DOMAIN map) \cup {k} |-> IF x = k THEN v ELSE map[x]]

\* sync_headers, the fetch loop: the blocks start_block..=current_block are
\* asked for in ascending order; a number the provider has no block for is
\* skipped.
RECURSIVE FetchRange(_, _, _, _)
FetchRange(from, to, fork, missing) ==
    IF from > to THEN <<>>
    ELSE (IF from \in missing THEN <<>>
          ELSE <<Block(from, AncestorFork(fork, from))>>)
         \o FetchRange(from + 1, to, fork, missing)

\* a variant that backfills one finality depth only
SyncHeadersOneDepth(st, chain_id, current_block, fork, missing) ==
    LET start_block == SaturatingSub(current_block, finality_depth)
        fetched == FetchRange(start_block, current_block, fork, missing)
    IN [headers |-> Insert(st.headers, chain_id, fetched),
        finalized |-> Insert(st.finalized, chain_id,
                             SaturatingSub(current_block, finality_depth))]

\* sync_headers
SyncHeaders(st, chain_id, current_block, fork, missing) ==
    LET start_block == SaturatingSub(current_block, finality_depth * 2)
        fetched == FetchRange(start_block, current_block, fork, missing)
    IN [headers |-> Insert(st.headers, chain_id, fetched),
        finalized |-> Insert(st.finalized, chain_id,
                             SaturatingSub(current_block, finality_depth))]

\* What a provider answers during sync_initial: an error on one of its calls,
\* or its height, the chain its head is on and the numbers it has no block for.
BootAnswers ==
    {[status |-> "err", height |-> 0, fork |-> 0, missing |-> {}]}
    \cup UNION {
           {[status |-> "ok", height |-> h, fork |-> f, missing |-> m] :
                f \in ForksAt(h),
                m \in SUBSET (SaturatingSub(h, FinalityDepth * 2)..h)} :
           h \in Heights}

\* LightClient::new / sync_initial: both heights and both chain ids are asked
\* for, then each chain is synchronized; any provider error fails construction.
SyncInitialAnswered(ans) ==
    /\ lc_pc = "new"
    /\ IF \E p \in ProviderSet : ans[p].status = "err"
       THEN /\ lc_pc' = "failed"
            /\ UNCHANGED <<headers, finalized>>
       ELSE LET eth == ans[Providers[1]]
                arb == ans[Providers[2]]
                s0 == [headers |-> headers, finalized |-> finalized]
                s1 == SyncHeaders(s0, ChainId(Providers[1]), eth.height,
                                  eth.fork, eth.missing)
                s2 == SyncHeaders(s1, ChainId(Providers[2]), arb.height,
                                  arb.fork, arb.missing)
            IN /\ headers' = s2.headers
               /\ finalized' = s2.finalized
               /\ lc_pc' = "idle"
    /\ call' = [op |-> "sync_initial", ans |-> ans]
    /\ UNCHANGED <<finality_depth, event_rx, returned, tick>>
    /\ UNCHANGED pvars

\* handle_reorg: headers are popped from the tail, counting each pop, until the
\* popped header's hash is the new header's parent hash or the store is empty.
RECURSIVE HandleReorgFrom(_, _, _)
HandleReorgFrom(hs, new_header, depth) ==
    IF hs = <<>> THEN [headers |-> hs, depth |-> depth]
    ELSE LET header == Last(hs)
         IN IF header.block_hash = new_header.parent_hash
            THEN [headers |-> Front(hs), depth |-> depth + 1]
            ELSE HandleReorgFrom(Front(hs), new_header, depth + 1)

\* a variant whose count starts at one
HandleReorgCountFromOne(hs, new_header) == HandleReorgFrom(hs, new_header, 1)

HandleReorg(hs, new_header) == HandleReorgFrom(hs, new_header, 0)

\* a variant that removes the newest headers instead of the oldest
PruneNewest(hs) == IF Len(hs) > HeaderCap THEN SubSeq(hs, 1, HeaderCap) ELSE hs

\* "while headers.len() > 1000 { headers.remove(0) }"
RECURSIVE Prune(_)
Prune(hs) == IF Len(hs) > HeaderCap THEN Prune(Tail(hs)) ELSE hs

ReorgEvent(chain_id, depth) ==
    [type |-> "Reorg", chain_id |-> chain_id, depth |-> depth]

NewBlockEvent(chain_id, header) ==
    [type |-> "NewBlock", chain_id |-> chain_id,
     block_number |-> header.block_number, block_hash |-> header.block_hash]

\* What a provider answers during one poll: an error on get_chainid or on
\* get_block_number; or its height, with get_block failing, returning nothing,
\* or returning the block of one of its chains at that height.
PollAnswers ==
    {[status |-> st, height |-> 0, block |-> NoBlock] :
         st \in {"chainid_err", "height_err"}}
    \cup UNION {
           {[status |-> st, height |-> h, block |-> NoBlock] :
                st \in {"block_err", "block_none"}}
           \cup {[status |-> "block", height |-> h, block |-> Block(h, f)] :
                    f \in ForksAt(h)} :
           h \in Heights}

Outcome(st, p, o) == [st EXCEPT !.tick = [@ EXCEPT ![p] = o]]

\* process_new_block.  st.status is "ok" while the poll goes on, "aborted" once a
\* provider call has failed, "blocked" once a send found the event channel full.
ProcessNewBlock(st, p, chain_id, block_number, a) ==
    IF a.status = "block_err"
    THEN [Outcome(st, p, "rpc_error") EXCEPT !.status = "aborted"]
    ELSE IF a.status = "block_none"
    THEN Outcome(st, p, "block_absent")
    ELSE
      LET header == a.block
          hs == st.headers[chain_id]
          reorg == hs # <<>> /\ header.parent_hash # Last(hs).block_hash
          r == HandleReorg(hs, header)
          kept == IF reorg THEN r.headers ELSE hs
          events1 == IF reorg
                     THEN Append(st.events, ReorgEvent(chain_id, r.depth))
                     ELSE st.events
          pushed == Prune(Append(kept, header))
          fin == IF block_number > finality_depth
                 THEN block_number - finality_depth
                 ELSE st.finalized[chain_id]
      IN IF reorg /\ Len(st.events) >= EventCap
         THEN [Outcome(st, p, "reorg_send_blocked") EXCEPT
                  !.headers[chain_id] = kept, !.status = "blocked"]
         ELSE IF Len(events1) >= EventCap
         THEN [Outcome(st, p, "newblock_send_blocked")
                  EXCEPT !.headers[chain_id] = pushed,
                         !.finalized[chain_id] = fin,
                         !.events = events1,
                         !.status = "blocked"]
         ELSE [Outcome(st, p, IF reorg THEN "reorg" ELSE "appended")
                  EXCEPT !.headers[chain_id] = pushed,
                         !.finalized[chain_id] = fin,
                         !.events = Append(events1, NewBlockEvent(chain_id, header))]

\* a variant that asks for the block of any reported height
AsksForBlockAlways(st, chain_id, current) ==
    /\ chain_id \in DOMAIN st.headers
    /\ st.headers[chain_id] # <<>>

\* a variant that also asks for a height equal to the last stored number
AsksForBlockAtTail(st, chain_id, current) ==
    /\ chain_id \in DOMAIN st.headers
    /\ st.headers[chain_id] # <<>>
    /\ current >= Last(st.headers[chain_id]).block_number

\* poll_new_blocks asks get_block only for a height above the last stored
\* header's number
AsksForBlock(st, chain_id, current) ==
    /\ chain_id \in DOMAIN st.headers
    /\ st.headers[chain_id] # <<>>
    /\ current > Last(st.headers[chain_id]).block_number

PollProviderFinalizesFirst(st, p, a) ==
    IF st.status # "ok" THEN st
    ELSE IF a.status \in {"chainid_err", "height_err"}
    THEN [Outcome(st, p, "rpc_error") EXCEPT !.status = "aborted"]
    ELSE IF AsksForBlock(st, ChainId(p), a.height)
    THEN ProcessNewBlock(
             [st EXCEPT !.finalized[ChainId(p)] =
                            IF a.height > finality_depth
                            THEN a.height - finality_depth ELSE @],
             p, ChainId(p), a.height, a)
    ELSE Outcome(st, p, "no_new_block")

\* poll_new_blocks, the part for one provider: chain id, height, and the new
\* block when the height is above the last stored header's number.
PollProvider(st, p, a) ==
    IF st.status # "ok" THEN st
    ELSE IF a.status \in {"chainid_err", "height_err"}
    THEN [Outcome(st, p, "rpc_error") EXCEPT !.status = "aborted"]
    ELSE IF AsksForBlock(st, ChainId(p), a.height)
    THEN ProcessNewBlock(st, p, ChainId(p), a.height, a)
    ELSE Outcome(st, p, "no_new_block")

\* poll_new_blocks: Ethereum first, then Arbitrum; "?" returns at the first error.
PollNewBlocks(st, ans) ==
    PollProvider(PollProvider(st, Providers[1], ans[Providers[1]]),
                 Providers[2], ans[Providers[2]])

\* An answer holds nothing for a call the poll does not make: no provider is
\* asked once the poll has stopped, and no block is asked for unless the height
\* is above the stored tail.
Asked(st, p, a) ==
    IF st.status # "ok" THEN a.status = "chainid_err"
    ELSE a.status \in {"block_err", "block"}
            => AsksForBlock(st, ChainId(p), a.height)

PollState ==
    [headers |-> headers, finalized |-> finalized, events |-> event_rx,
     status |-> "ok", tick |-> [p \in ProviderSet |-> NotPolled]]

\* the height a provider reported to the poll, if the poll got that far
PolledHeight(st, p, a) ==
    IF st.tick[p] = NotPolled \/ a.status \in {"chainid_err", "height_err"}
    THEN NoHeight
    ELSE a.height

\* next_event: one poll, its error discarded, then event_rx.recv().  A send on
\* the full event channel never completes (its only receiver is this call's
\* own recv), and neither does recv on the empty channel.
NextEventAnswered(ans) ==
    /\ lc_pc = "idle"
    /\ call = NoCall
    /\ Asked(PollState, Providers[1], ans[Providers[1]])
    /\ Asked(PollProvider(PollState, Providers[1], ans[Providers[1]]),
             Providers[2], ans[Providers[2]])
    /\ \E st \in {PollNewBlocks(PollState, ans)} :
          /\ headers' = st.headers
          /\ finalized' = st.finalized
          /\ tick' = st.tick
          /\ call' = [op |-> "next_event",
                      height |-> [p \in ProviderSet |->
                                     PolledHeight(st, p, ans[p])]]
          /\ IF st.status = "blocked"
             THEN /\ event_rx' = st.events
                  /\ returned' = NoEvent
                  /\ lc_pc' = "send"
             ELSE IF st.events = <<>>
             THEN /\ event_rx' = st.events
                  /\ returned' = NoEvent
                  /\ lc_pc' = "recv"
             ELSE /\ event_rx' = Tail(st.events)
                  /\ returned' = Head(st.events)
                  /\ lc_pc' = "idle"
    /\ UNCHANGED finality_depth
    /\ UNCHANGED pvars

\* run_event_loop: select! drops the pending next_event future when another
\* branch completes, and the loop calls next_event again.
NextEventDropped ==
    /\ lc_pc \in {"recv", "send"}
    /\ lc_pc' = "idle"
    /\ call' = NoCall
    /\ UNCHANGED <<headers, finalized, finality_depth, event_rx, returned, tick>>
    /\ UNCHANGED pvars

\* The caller has what the latest call returned (the built client, the event
\* run_event_loop hands to its handler) and comes round to its next call.
CallerResumes ==
    /\ lc_pc = "idle"
    /\ call # NoCall
    /\ call' = NoCall
    /\ UNCHANGED <<headers, finalized, finality_depth, event_rx, lc_pc, returned,
                   tick>>
    /\ UNCHANGED pvars

InitLC ==
    /\ LightClientUnbuilt
    /\ ProverServiceNew(FALSE, 0)

\* LightClient::new, whatever the providers answer
SyncInitial ==
    /\ lc_pc = "new"
    /\ \E ans \in [ProviderSet -> BootAnswers] : SyncInitialAnswered(ans)

\* next_event, whatever the providers answer
NextEvent ==
    /\ lc_pc = "idle"
    /\ call = NoCall
    /\ \E a1 \in PollAnswers : \E a2 \in PollAnswers :
          NextEventAnswered([p \in ProviderSet |->
                                IF p = Providers[1] THEN a1 ELSE a2])

NextLC ==
    \/ SyncInitial
    \/ NextEvent
    \/ NextEventDropped
    \/ CallerResumes

SpecLC == InitLC /\ [][NextLC]_vars

\* run_event_loop calls next_event again whenever the previous call is over,
\* and the providers answer every call.  Nothing makes select! drop a pending
\* next_event: that takes a P2P event or ctrl-c.
FairSpecLC == SpecLC /\ WF_vars(NextEvent) /\ WF_vars(CallerResumes)

(***************************************************************************)
(* process_new_block on its own: a built client is handed headers whose    *)
(* parent hash is any hash at all (the provider's fields are stored as     *)
(* received, unchecked).                                                   *)
(***************************************************************************)

Hashes == {<<n, f>> : n \in Heights, f \in 0..MaxFork} \cup {ZeroHash}

\* a get_block answer for the requested number with an arbitrary parent hash
AnyParentAnswers ==
    {[status |-> "block", height |-> h,
      block |-> StoredHeader(h, <<h, f>>, par)] :
         h \in Heights, f \in 0..MaxFork, par \in Hashes}

\* the client as LightClient::new leaves it when every provider call succeeds
InitBuilt ==
    /\ finality_depth = FinalityDepth
    /\ \E ans \in [ProviderSet -> {a \in BootAnswers : a.status = "ok"}] :
          LET eth == ans[Providers[1]]
              arb == ans[Providers[2]]
              s1 == SyncHeaders([headers |-> <<>>, finalized |-> <<>>],
                                ChainId(Providers[1]), eth.height, eth.fork,
                                eth.missing)
              s2 == SyncHeaders(s1, ChainId(Providers[2]), arb.height,
                                arb.fork, arb.missing)
          IN /\ headers = s2.headers
             /\ finalized = s2.finalized
    /\ event_rx = <<>>
    /\ lc_pc = "idle"
    /\ returned = NoEvent
    /\ tick = [p \in ProviderSet |-> NotPolled]
    /\ call = NoCall
    /\ ProverServiceNew(FALSE, 0)

\* the block hashes of a sequence of headers
HashesOf(hs) == {hs[i].block_hash : i \in 1..Len(hs)}

\* one provider's part of a poll whose height is above the stored tail:
\* process_new_block with the block the provider returned.  The call's record
\* names the headers it took out of the store.
ProcessNewBlockCall(p, a) ==
    /\ lc_pc = "idle"
    /\ call = NoCall
    /\ AsksForBlock(PollState, ChainId(p), a.height)
    /\ \E st \in {ProcessNewBlock(PollState, p, ChainId(p), a.height, a)} :
          /\ headers' = st.headers
          /\ finalized' = st.finalized
          /\ tick' = st.tick
          /\ event_rx' = st.events
          /\ lc_pc' = IF st.status = "blocked" THEN "send" ELSE "idle"
          /\ call' = [op |-> "process_new_block",
                      chain_id |-> ChainId(p),
                      removed |-> HashesOf(headers[ChainId(p)])
                                     \ HashesOf(st.headers[ChainId(p)])]
    /\ UNCHANGED <<finality_depth, returned>>
    /\ UNCHANGED pvars

NextReorg ==
    \/ \E p \in ProviderSet, a \in AnyParentAnswers : ProcessNewBlockCall(p, a)
    \/ CallerResumes

SpecReorg == InitBuilt /\ [][NextReorg]_vars

(***************************************************************************)
(* The queries of a built client, between ticks that append, resolve       *)
(* reorgs and evict.                                                       *)
(***************************************************************************)

\* a chain id no provider reports
UnknownChain == 10

ChainIds == {ChainId(p) : p \in ProviderSet} \cup {UnknownChain}

\* Option<&StoredHeader> as a sequence of at most one header
None == <<>>

Some(x) == <<x>>

\* get_header: the first stored header of the chain with that hash
get_header(chain_id, block_hash) ==
    IF chain_id \notin DOMAIN headers THEN None
    ELSE LET found == SelectSeq(headers[chain_id],
                                LAMBDA h : h.block_hash = block_hash)
         IN IF Len(found) = 0 THEN None ELSE Some(Head(found))

\* a variant that verifies against the root of the chain's last header when
\* the hash is not stored
VerifyInclusionAgainstTail(chain_id, block_hash, tx_hash, proof) ==
    LET header == get_header(chain_id, block_hash)
    IN IF header # None
       THEN verify_merkle_proof(tx_hash, proof, header[1].transactions_root)
       ELSE /\ chain_id \in DOMAIN headers
            /\ headers[chain_id] # <<>>
            /\ verify_merkle_proof(tx_hash, proof,
                                   Last(headers[chain_id]).transactions_root)

\* verify_inclusion
verify_inclusion(chain_id, block_hash, tx_hash, proof) ==
    LET header == get_header(chain_id, block_hash)
    IN IF header # None
       THEN verify_merkle_proof(tx_hash, proof, header[1].transactions_root)
       ELSE FALSE

\* the hashes the latest tick took out of a chain's store, for a query that
\* directly follows the tick
RemovedBefore(chain_id) ==
    IF call.op = "process_new_block" /\ call.chain_id = chain_id
    THEN call.removed ELSE {}

\* a call of verify_inclusion between two ticks, with any arguments
VerifyInclusion ==
    /\ lc_pc = "idle"
    /\ call.op # "verify_inclusion"
    /\ \E chain_id \in ChainIds, block_hash \in Hashes,
          tx_hash \in Words, proof \in Proofs :
          call' = [op |-> "verify_inclusion", chain_id |-> chain_id,
                   block_hash |-> block_hash, tx_hash |-> tx_hash,
                   proof |-> proof,
                   removed |-> RemovedBefore(chain_id),
                   result |-> verify_inclusion(chain_id, block_hash, tx_hash,
                                               proof)]
    /\ UNCHANGED <<headers, finalized, finality_depth, event_rx, lc_pc, returned,
                   tick>>
    /\ UNCHANGED pvars

\* a store bootstrapped from a provider that had every block of the range
NoGaps(c) ==
    /\ headers[c] # <<>>
    /\ Len(headers[c]) = Last(headers[c]).block_number
                             - Head(headers[c]).block_number + 1
    /\ Head(headers[c]).block_number
          = SaturatingSub(Last(headers[c]).block_number, 2 * finality_depth)
    /\ finalized[c] = SaturatingSub(Last(headers[c]).block_number, finality_depth)

InitVerify ==
    /\ InitBuilt
    /\ \A c \in DOMAIN headers : NoGaps(c)

\* get_block answers with the provider's own block of the requested number
BlockAnswers == {a \in PollAnswers : a.status = "block"}

NextVerify ==
    \/ \E p \in ProviderSet, a \in BlockAnswers : ProcessNewBlockCall(p, a)
    \/ VerifyInclusion
    \/ CallerResumes

SpecVerify == InitVerify /\ [][NextVerify]_vars

(***************************************************************************)
(* verify_merkle_proof on its own: the arguments are drawn at the start,   *)
(* the one step applies the function to them.                              *)
(***************************************************************************)

InitMerkle ==
    /\ headers = <<>>
    /\ finalized = <<>>
    /\ finality_depth = FinalityDepth
    /\ event_rx = <<>>
    /\ lc_pc = "new"
    /\ returned = NoEvent
    /\ tick = [p \in ProviderSet |-> NotPolled]
    /\ \E leaf \in Digests(1), proof \in Proofs, root \in Digests(MaxProof) :
          call = [op |-> "arguments", leaf |-> leaf, proof |-> proof,
                  root |-> root]
    /\ ProverServiceNew(FALSE, 0)

VerifyMerkleProof ==
    /\ call.op = "arguments"
    /\ call' = [op |-> "verify_merkle_proof", leaf |-> call.leaf,
                proof |-> call.proof, root |-> call.root,
                result |-> verify_merkle_proof(call.leaf, call.proof, call.root)]
    /\ UNCHANGED <<headers, finalized, finality_depth, event_rx, lc_pc, returned,
                   tick>>
    /\ UNCHANGED pvars

SpecMerkle == InitMerkle /\ [][VerifyMerkleProof]_vars

(***************************************************************************)
(* generate_proof on its own: the request is drawn at the start, the one   *)
(* step applies the function to it.  Byte arrays are sequences of bytes.   *)
(***************************************************************************)

\* [x; n]
Repeat(x, n) == [i \in 1..n |-> x]

\* the k-th n-byte array tried: no two of its bytes are equal
ByteArray(k, n) == [i \in 1..n |-> (40 * k + i) % 256]

ByteArrays(n) == {ByteArray(k, n) : k \in 1..NumFieldValues}

\* u64 values tried (TLC's integers stop at 2^31 - 1)
U64Values == {0, 1, 258, 16909060, 2147483647}

\* the requests tried, one record shape per variant of ProofRequest
ProofRequests ==
    {[kind |-> "Withdrawal", merkle_root |-> m, nullifier |-> n,
      recipient |-> rc, amount |-> a, secret |-> sc, randomness |-> rn,
      merkle_path |-> mp, merkle_indices |-> <<>>] :
        m \in ByteArrays(32), n \in ByteArrays(32), rc \in ByteArrays(20),
        a \in U64Values, sc \in ByteArrays(32), rn \in ByteArrays(32),
        mp \in {<<>>, <<ByteArray(1, 32)>>}}
    \cup
    {[kind |-> "Transfer", merkle_root |-> m, nullifier |-> n,
      new_commitment_a |-> ca, new_commitment_b |-> cb, secret |-> sc,
      randomness |-> rn, merkle_path |-> mp, merkle_indices |-> <<>>] :
        m \in ByteArrays(32), n \in ByteArrays(32), ca \in ByteArrays(32),
        cb \in ByteArrays(32), sc \in ByteArrays(32), rn \in ByteArrays(32),
        mp \in {<<>>, <<ByteArray(1, 32)>>}}
    \cup
    {[kind |-> "Consistency", pedersen_commitment |-> pc,
      paillier_ciphertext |-> <<>>, value |-> v, pedersen_randomness |-> rn,
      paillier_randomness |-> <<>>] :
        pc \in ByteArrays(32), v \in U64Values, rn \in ByteArrays(32)}
    \cup
    {[kind |-> "Range", commitment |-> c, min_value |-> mv, value |-> v,
      randomness |-> rn] :
        c \in ByteArrays(32), mv \in U64Values, v \in U64Values,
        rn \in ByteArrays(32)}

\* u64::to_be_bytes, the low n bytes
RECURSIVE ToBeBytes(_, _)
ToBeBytes(v, n) ==
    IF n = 0 THEN <<>> ELSE ToBeBytes(v \div 256, n - 1) \o <<v % 256>>

\* a variant that puts the 20 bytes at the start of the 32
RecipientPaddedLeft(recipient) == recipient \o Repeat(0, 12)

\* recipient_padded[12..].copy_from_slice(&recipient)
RecipientPadded(recipient) == Repeat(0, 12) \o recipient

\* bytes[24..].copy_from_slice(&v.to_be_bytes())
U64Padded(v) == Repeat(0, 24) \o ToBeBytes(v, 8)

\* generate_dummy_proof
generate_dummy_proof(secret, randomness, merkle_path) == Repeat(0, 192)

\* generate_proof; the result is always Ok.  generation_time_ms, the time the
\* call took on the wall clock, is left out.
generate_proof(request) ==
    IF request.kind = "Withdrawal"
    THEN [proof_type |-> "withdrawal",
          proof_data |-> generate_dummy_proof(request.secret,
                             request.randomness, request.merkle_path),
          public_inputs |-> <<request.merkle_root, request.nullifier,
                              RecipientPadded(request.recipient),
                              U64Padded(request.amount)>>]
    ELSE IF request.kind = "Transfer"
    THEN [proof_type |-> "transfer",
          proof_data |-> generate_dummy_proof(request.secret,
                             request.randomness, request.merkle_path),
          public_inputs |-> <<request.merkle_root, request.nullifier,
                              request.new_commitment_a,
                              request.new_commitment_b>>]
    ELSE IF request.kind = "Consistency"
    THEN [proof_type |-> "consistency",
          proof_data |-> generate_dummy_proof(request.pedersen_randomness,
                             Repeat(0, 32), <<>>),
          public_inputs |-> <<request.pedersen_commitment>>]
    ELSE [proof_type |-> "range",
          proof_data |-> generate_dummy_proof(request.randomness,
                             Repeat(0, 32), <<>>),
          public_inputs |-> <<request.commitment,
                              U64Padded(request.min_value)>>]

InitGenerate ==
    /\ headers = <<>>
    /\ finalized = <<>>
    /\ finality_depth = FinalityDepth
    /\ event_rx = <<>>
    /\ lc_pc = "new"
    /\ returned = NoEvent
    /\ tick = [p \in ProviderSet |-> NotPolled]
    /\ \E request \in ProofRequests :
          call = [op |-> "request", request |-> request]
    /\ ProverServiceNew(FALSE, 0)

GenerateProof ==
    /\ call.op = "request"
    /\ call' = [op |-> "generate_proof", request |-> call.request,
                proof |-> generate_proof(call.request)]
    /\ UNCHANGED <<headers, finalized, finality_depth, event_rx, lc_pc, returned,
                   tick>>
    /\ UNCHANGED pvars

SpecGenerate == InitGenerate /\ [][GenerateProof]_vars

(***************************************************************************)
(* Light client: properties                                                *)
(***************************************************************************)

\* the caller is between two polls (bootstrap done, no tick cut short by a
\* send that cannot complete)
BetweenTicks == lc_pc \in {"idle", "recv"}

\* a step of next_event or of process_new_block starts from "idle", the
\* previous call over
TickStep == lc_pc = "idle" /\ call = NoCall

\* the events of one chain, in queue order
EventsOf(q, chain_id) == SelectSeq(q, LAMBDA e : e.chain_id = chain_id)

\* C1: when the new header's parent hash is the hash of a stored header h_k
\* that is not the tail, the tick removes exactly the headers after h_k,
\* reports their number as the depth of its Reorg event and leaves the store
\* as [.., h_k, new].
C1_ReorgKeepsAncestor ==
    [][\A p \in ProviderSet :
          LET c == ChainId(p)
              hs == headers[c]
              after == headers'[c]
          IN (TickStep /\ tick'[p] = "reorg")
             => \A k \in 1..(Len(hs) - 1) :
                   hs[k].block_hash = Last(after).parent_hash
                   => /\ after = Append(SubSeq(hs, 1, k), Last(after))
                      /\ \E i \in 1..Len(event_rx') :
                            event_rx'[i] = ReorgEvent(c, Len(hs) - k)]_vars

\* C4: between ticks every adjacent pair of stored headers is parent-linked.
C4_ParentLinked ==
    BetweenTicks =>
        \A c \in DOMAIN headers :
            \A i \in 1..(Len(headers[c]) - 1) :
                headers[c][i + 1].parent_hash = headers[c][i].block_hash

\* C5: a non-empty store's last header is at or above the finalized height.
C5_FinalizedBelowTail ==
    \A c \in DOMAIN headers :
        headers[c] # <<>> => finalized[c] <= Last(headers[c]).block_number

\* C10: a tick of a chain in which a provider call failed leaves that chain's
\* headers and finalized height as they were and enqueues no event for the
\* chain; and the tick after a failed one, when it fetches a block above the
\* tail, stores it as the new tail and enqueues its NewBlock event.
C10_FailedTickCommitsNothing ==
    [][\A p \in ProviderSet :
          LET c == ChainId(p)
              polled == (IF returned' = NoEvent THEN <<>> ELSE <<returned'>>)
                           \o event_rx'
              emitted == SubSeq(polled, Len(event_rx) + 1, Len(polled))
          IN /\ (TickStep /\ tick'[p] = "rpc_error")
                => /\ headers'[c] = headers[c]
                   /\ finalized'[c] = finalized[c]
                   /\ EventsOf(emitted, c) = <<>>
             /\ (TickStep /\ tick[p] = "rpc_error" /\ tick'[p] \in {"appended", "reorg"})
                => /\ Last(headers'[c]).block_number > Last(headers[c]).block_number
                   /\ Last(EventsOf(emitted, c)) = NewBlockEvent(c, Last(headers'[c]))]_vars

C10_Witness ==
    /\ lc_pc = "idle"
    /\ tick[Providers[1]] = "appended"
    /\ tick[Providers[2]] = "rpc_error"
    /\ returned.type = "NewBlock"
    /\ returned.chain_id = ChainId(Providers[1])
    /\ event_rx = <<>>

\* C11: in a next_event call where a provider call of one chain fails, the
\* other chain's provider is polled in that same call, whichever of the two
\* chains it is that fails.
C11_OtherChainStillPolled ==
    [][\A p \in ProviderSet :
          (TickStep /\ tick'[p] = "rpc_error")
          => \A q \in ProviderSet \ {p} : tick'[q] # NotPolled]_vars

\* the events a next_event step put on the event channel, oldest first
Emitted(before, after, ret) ==
    LET polled == (IF ret = NoEvent THEN <<>> ELSE <<ret>>) \o after
    IN SubSeq(polled, Len(before) + 1, Len(polled))

\* the tick outcomes in which process_new_block pushed the fetched header
AppendedOutcomes == {"appended", "reorg", "newblock_send_blocked"}

\* C12: a tick that appends a header enqueues exactly one NewBlock event for
\* the chain, carrying the appended header's chain id, number and hash; a Reorg
\* event of the same tick comes before it; and the caller is handed the oldest
\* queued event, the queue keeping its order.
C12_OneNewBlockPerAppend ==
    [][\A p \in ProviderSet :
          LET c == ChainId(p)
              evs == EventsOf(Emitted(event_rx, event_rx', returned'), c)
              blocks == {i \in 1..Len(evs) : evs[i].type = "NewBlock"}
          IN /\ (TickStep /\ tick'[p] \in AppendedOutcomes)
                => /\ blocks = {Len(evs)}
                   /\ Last(evs) = NewBlockEvent(c, Last(headers'[c]))
             /\ (TickStep /\ tick'[p] = "reorg")
                => /\ Len(evs) = 2
                   /\ evs[1].type = "Reorg"
             /\ (TickStep /\ lc_pc' = "idle" /\ event_rx # <<>>)
                => /\ returned' = Head(event_rx)
                   /\ SubSeq(event_rx', 1, Len(event_rx) - 1) = Tail(event_rx)]_vars

\* C13: the stored headers of every chain are strictly increasing in block
\* number, whatever appends, reorg resolutions and evictions have happened.
C13_StrictlyIncreasing ==
    \A c \in DOMAIN headers :
        \A i \in 1..(Len(headers[c]) - 1) :
            headers[c][i].block_number < headers[c][i + 1].block_number

\* a reorg resolution has kept part of the store and appended the new header
C13_Witness ==
    \E p \in ProviderSet :
        /\ tick[p] = "reorg"
        /\ Len(headers[ChainId(p)]) >= 2

\* C14: a tick in which the provider reports a height at or below the number
\* of the last stored header leaves the chain's headers and finalized height
\* as they were and enqueues no event for the chain.
C14_PollAtOrBelowTailIdempotent ==
    [][\A p \in ProviderSet :
          LET c == ChainId(p)
          IN (/\ TickStep
              /\ call'.op = "next_event"
              /\ call'.height[p] # NoHeight
              /\ headers[c] # <<>>
              /\ call'.height[p] <= Last(headers[c]).block_number)
             => /\ headers'[c] = headers[c]
                /\ finalized'[c] = finalized[c]
                /\ EventsOf(Emitted(event_rx, event_rx', returned'), c) = <<>>]_vars

\* a provider has reported a height below the tail of a store of two or more
\* headers, and the tick has done nothing for the chain
C14_Witness ==
    /\ call.op = "next_event"
    /\ \E p \in ProviderSet :
          /\ call.height[p] # NoHeight
          /\ Len(headers[ChainId(p)]) >= 2
          /\ call.height[p] < Last(headers[ChainId(p)]).block_number
          /\ tick[p] = "no_new_block"

\* the last n elements of a sequence
Suffix(seq, n) == SubSeq(seq, Len(seq) - n + 1, Len(seq))

\* C15: a store never holds more than HeaderCap headers (1000 in the source);
\* a tick that appends leaves the headers it kept followed by the new header,
\* less exactly the oldest ones in excess of the bound, the new header (the one
\* of the height the provider reported) staying at the tail.
C15_AtMostCapHeaders ==
    /\ [](\A c \in DOMAIN headers : Len(headers[c]) <= HeaderCap)
    /\ [][\A p \in ProviderSet :
             LET c == ChainId(p)
                 hs == headers[c]
                 after == headers'[c]
                 new == Last(after)
                 Evicted(kept) ==
                     LET full == Append(kept, new)
                     IN after = Suffix(full, IF Len(full) > HeaderCap
                                             THEN HeaderCap ELSE Len(full))
             IN (TickStep /\ tick'[p] \in AppendedOutcomes)
                => /\ after # <<>>
                   /\ new.block_number = call'.height[p]
                   /\ \E k \in 0..Len(hs) : Evicted(SubSeq(hs, 1, k))
                   /\ tick'[p] = "appended" => Evicted(hs)]_vars

\* an append has left a full store whose oldest header is no longer block 0
C15_Witness ==
    \E p \in ProviderSet :
        /\ tick[p] = "appended"
        /\ call.op = "next_event"
        /\ Len(headers[ChainId(p)]) = HeaderCap
        /\ headers[ChainId(p)][1].block_number >= 1
        /\ Last(headers[ChainId(p)]).block_number = call.height[p]

\* C16: a bootstrap at provider height H with finality depth d stores, in
\* ascending order, the provider's blocks of the numbers max(0, H - 2d) .. H,
\* less the numbers the provider returns nothing for, and sets the finalized
\* height to max(0, H - d); at height 100 with depth 15 and no gaps these are
\* the 31 blocks 70 .. 100 and the finalized height 85.
C16_BootstrapRange ==
    (call.op = "sync_initial" /\ lc_pc = "idle")
    => \A p \in ProviderSet :
          LET a == call.ans[p]
              c == ChainId(p)
              H == a.height
              d == finality_depth
              first == IF H >= 2 * d THEN H - 2 * d ELSE 0
              numbers == [i \in 1..(H - first + 1) |-> first + i - 1]
              present == SelectSeq(numbers, LAMBDA n : n \notin a.missing)
          IN /\ Len(headers[c]) = Len(present)
             /\ \A i \in 1..Len(present) :
                   headers[c][i] = Block(present[i], AncestorFork(a.fork, present[i]))
             /\ finalized[c] = IF H >= d THEN H - d ELSE 0
             \* the source's numbers: height 100, depth 15, no gaps
             /\ LET fetched == FetchRange(SaturatingSub(100, 15 * 2), 100, 0, {})
                IN /\ Len(fetched) = 31
                   /\ \A i \in 1..31 : fetched[i].block_number = 69 + i
                   /\ SaturatingSub(100, 15) = 85

\* one chain bootstrapped without gaps at a height above 2d (2d + 1 headers),
\* the other with a gap
C16_Witness ==
    /\ call.op = "sync_initial"
    /\ lc_pc = "idle"
    /\ \E p, q \in ProviderSet :
          /\ call.ans[p].height > 2 * finality_depth
          /\ call.ans[p].missing = {}
          /\ Len(headers[ChainId(p)]) = 2 * finality_depth + 1
          /\ headers[ChainId(p)][1].block_number
                 = call.ans[p].height - 2 * finality_depth
          /\ finalized[ChainId(p)] = call.ans[p].height - finality_depth
          /\ call.ans[q].missing # {}
          /\ headers[ChainId(q)] # <<>>
          /\ Len(headers[ChainId(q)]) < 2 * finality_depth + 1

\* C17: no step lowers a chain's finalized height, unless the tick resolved a
\* reorg of that chain.
C17_FinalizedMonotone ==
    [][\A p \in ProviderSet :
          LET c == ChainId(p)
              evs == EventsOf(Emitted(event_rx, event_rx', returned'), c)
              reorged == \/ tick'[p] = "reorg_send_blocked"
                         \/ \E i \in 1..Len(evs) : evs[i].type = "Reorg"
          IN (c \in DOMAIN finalized /\ ~(TickStep /\ reorged))
             => finalized'[c] >= finalized[c]]_vars

\* C20: the verifier returns TRUE exactly when folding the siblings into the
\* leaf from left to right, current = H(current || sibling), ends at the root
\* (for no sibling: when leaf = root; for [s1, s2]: when root is
\* H(H(leaf, s1), s2)); and when it returns TRUE, it returns FALSE for any
\* other leaf, for any one sibling replaced by another, and for any other root.
C20_MerkleFold ==
    call.op = "verify_merkle_proof"
    => LET leaf == call.leaf
           proof == call.proof
           root == call.root
           n == Len(proof)
           folded[i \in 0..n] ==
               IF i = 0 THEN leaf ELSE Keccak256(folded[i - 1], proof[i])
       IN /\ call.result = (folded[n] = root)
          /\ n = 0 => call.result = (leaf = root)
          /\ (n = 2 /\ root = Keccak256(Keccak256(leaf, proof[1]), proof[2]))
             => call.result = TRUE
          /\ call.result = TRUE
             => /\ \A l \in Digests(1) \ {leaf} :
                      ~verify_merkle_proof(l, proof, root)
                /\ \A i \in 1..n : \A w \in Words \ {proof[i]} :
                      ~verify_merkle_proof(leaf, [proof EXCEPT ![i] = w], root)
                /\ \A r \in Digests(MaxProof) \ {root} :
                      ~verify_merkle_proof(leaf, proof, r)

\* a proof of two different siblings has been accepted
C20_Witness ==
    /\ call.op = "verify_merkle_proof"
    /\ Len(call.proof) = 2
    /\ call.proof[1] # call.proof[2]
    /\ call.root = Keccak256(Keccak256(call.leaf, call.proof[1]), call.proof[2])
    /\ call.result = TRUE

\* C19: verify_inclusion returns FALSE whenever the chain's store holds no
\* header with the given hash (unknown chain, hash never stored, header just
\* evicted or popped by a reorg resolution); when the header is stored it
\* returns whether the Merkle fold of the leaf and the proof equals that
\* header's transactions_root.
C19_VerifyInclusion ==
    call.op = "verify_inclusion"
    => LET c == call.chain_id
           stored == IF c \in DOMAIN headers
                     THEN {i \in 1..Len(headers[c]) :
                              headers[c][i].block_hash = call.block_hash}
                     ELSE {}
       IN /\ call.result \in BOOLEAN
          /\ stored = {} => call.result = FALSE
          /\ c = UnknownChain => call.result = FALSE
          /\ call.block_hash \in call.removed => call.result = FALSE
          /\ \A i \in stored :
                call.result = verify_merkle_proof(call.tx_hash, call.proof,
                                                  headers[c][i].transactions_root)

\* the header asked for has just been evicted by an append, and the proof is
\* one that verifies against that header's transactions_root
C19_Witness ==
    /\ call.op = "verify_inclusion"
    /\ call.block_hash \in call.removed
    /\ \E p \in ProviderSet :
          ChainId(p) = call.chain_id /\ tick[p] = "appended"
    /\ verify_merkle_proof(call.tx_hash, call.proof,
                           TransactionsRoot(call.block_hash))
    /\ call.result = FALSE

\* the number a big-endian byte sequence stands for
RECURSIVE FromBeBytes(_)
FromBeBytes(bytes) ==
    IF Len(bytes) = 0 THEN 0
    ELSE FromBeBytes(Front(bytes)) * 256 + Last(bytes)

\* a 32-byte array that is 24 zero bytes followed by v, big-endian
IsU64In32(bytes, v) ==
    /\ Len(bytes) = 32
    /\ \A i \in 1..24 : bytes[i] = 0
    /\ \A i \in 25..32 : bytes[i] \in 0..255
    /\ FromBeBytes(SubSeq(bytes, 25, 32)) = v

\* C22: the generator gives each request kind its tag and its public inputs
\* in order (Withdrawal: merkle_root, nullifier, the recipient in the last 20
\* of 32 bytes, the amount big-endian in the last 8 of 32 bytes; Transfer:
\* merkle_root, nullifier, new_commitment_a, new_commitment_b; Consistency:
\* pedersen_commitment; Range: commitment, min_value big-endian in 32 bytes);
\* proof_data has 192 bytes; and no other secret, randomness, value or Merkle
\* path changes the public inputs.
C22_PublicInputs ==
    call.op = "generate_proof"
    => LET rq == call.request
           out == call.proof
           inputs == out.public_inputs
           SamePublic(other) == generate_proof(other).public_inputs = inputs
       IN /\ Len(out.proof_data) = 192
          /\ rq.kind = "Withdrawal"
             => /\ out.proof_type = "withdrawal"
                /\ Len(inputs) = 4
                /\ inputs[1] = rq.merkle_root
                /\ inputs[2] = rq.nullifier
                /\ Len(inputs[3]) = 32
                /\ \A i \in 1..12 : inputs[3][i] = 0
                /\ \A i \in 1..20 : inputs[3][12 + i] = rq.recipient[i]
                /\ IsU64In32(inputs[4], rq.amount)
          /\ rq.kind = "Transfer"
             => /\ out.proof_type = "transfer"
                /\ inputs = <<rq.merkle_root, rq.nullifier,
                              rq.new_commitment_a, rq.new_commitment_b>>
          /\ rq.kind \in {"Withdrawal", "Transfer"}
             => \A sc \in ByteArrays(32), rn \in ByteArrays(32) :
                   /\ SamePublic([rq EXCEPT !.secret = sc, !.randomness = rn])
                   /\ SamePublic([rq EXCEPT !.merkle_path = <<sc, rn>>])
          /\ rq.kind = "Consistency"
             => /\ out.proof_type = "consistency"
                /\ inputs = <<rq.pedersen_commitment>>
                /\ \A v \in U64Values, rn \in ByteArrays(32) :
                      SamePublic([rq EXCEPT !.value = v,
                                            !.pedersen_randomness = rn])
          /\ rq.kind = "Range"
             => /\ out.proof_type = "range"
                /\ Len(inputs) = 2
                /\ inputs[1] = rq.commitment
                /\ IsU64In32(inputs[2], rq.min_value)
                /\ \A v \in U64Values, rn \in ByteArrays(32) :
                      SamePublic([rq EXCEPT !.value = v, !.randomness = rn])

\* a withdrawal proof for an amount of more than one non-zero byte
C22_Witness ==
    /\ call.op = "generate_proof"
    /\ call.request.kind = "Withdrawal"
    /\ call.request.amount = 16909060
    /\ SubSeq(call.proof.public_inputs[4], 29, 32) = <<1, 2, 3, 4>>
    /\ call.proof.public_inputs[3][13] = call.request.recipient[1]
    /\ call.proof.public_inputs[3][13] # 0

\* the sequence of headers is made of blocks of the provider's chain `fork`
OnChain(hs, fork) ==
    \A i \in 1..Len(hs) :
        hs[i] = Block(hs[i].block_number,
                      AncestorFork(fork, hs[i].block_number))

\* the header is the block of chain `fork` at its number
BlockOfChain(header, fork) == header = Block(header.block_number, fork)

\* the sequence of headers a tick's own handling of the fetched header left
\* when it pushed onto all of `hs`
PushedOnto(hs, header) == Prune(Append(hs, header))

\* C23: a tick that stores a header of a chain of the provider on which every
\* stored header lies, the new header above the tail by one block or by more,
\* enqueues no Reorg event and discards no header other than by eviction.
C23_NoReorgOnExtension ==
    [][\A p \in ProviderSet :
          LET c == ChainId(p)
              hs == headers[c]
              new == Last(headers'[c])
          IN (/\ TickStep
              /\ tick'[p] \in AppendedOutcomes
              /\ hs # <<>>
              /\ \E f \in 0..MaxFork : OnChain(hs, f) /\ BlockOfChain(new, f))
             => /\ tick'[p] # "reorg"
                /\ \A i \in 1..Len(event_rx') :
                      event_rx'[i].type = "Reorg"
                      => \E j \in 1..Len(event_rx) : event_rx[j] = event_rx'[i]
                /\ headers'[c] = PushedOnto(hs, new)]_vars

\* C24: a tick that finds a chain's store empty and whose provider reports
\* its chain id and height asks for the block, and when the block comes stores
\* it as the only header without a Reorg event: the answer is an appended
\* header, a failed call or a missing block, never no request at all.
C24_EmptyStoreRecovers ==
    [][\A p \in ProviderSet :
          (/\ TickStep
           /\ headers[ChainId(p)] = <<>>
           /\ call'.op = "next_event"
           /\ call'.height[p] # NoHeight)
          => /\ tick'[p] \in {"appended", "newblock_send_blocked",
                               "rpc_error", "block_absent"}
             /\ tick'[p] \in AppendedOutcomes
                => Len(headers'[ChainId(p)]) = 1]_vars

\* C25: every Reorg event a tick enqueues has a depth of at least 1, equal to
\* the number of headers the tick took off the end of the store; and when no
\* stored header has the new header's parent hash, the depth is the number of
\* headers stored before the tick and the new header becomes the only one.
C25_DepthIsRemoved ==
    [][\A p \in ProviderSet :
          LET c == ChainId(p)
              hs == headers[c]
              new == Last(headers'[c])
              evs == EventsOf(Emitted(event_rx, event_rx', returned'), c)
          IN TickStep
             => \A i \in 1..Len(evs) :
                   evs[i].type = "Reorg"
                   => /\ evs[i].depth >= 1
                      /\ evs[i].depth <= Len(hs)
                      /\ headers'[c] =
                            Append(SubSeq(hs, 1, Len(hs) - evs[i].depth), new)
                      /\ (\A k \in 1..Len(hs) :
                             hs[k].block_hash # new.parent_hash)
                         => /\ evs[i].depth = Len(hs)
                            /\ headers'[c] = <<new>>]_vars

\* a reorg with no stored ancestor has emptied a store of two headers and
\* reported depth 2
C25_Witness ==
    \E p \in ProviderSet :
        /\ tick[p] = "reorg"
        /\ call.op = "process_new_block"
        /\ call.chain_id = ChainId(p)
        /\ Cardinality(call.removed) = 2
        /\ Len(headers[ChainId(p)]) = 1
        /\ \A h \in call.removed : h # Last(headers[ChainId(p)]).parent_hash
        /\ \E i \in 1..Len(event_rx) : event_rx[i] = ReorgEvent(ChainId(p), 2)

\* the headers of `before` that are not in `after`
Dropped(before, after) ==
    {before[i] : i \in 1..Len(before)} \ {after[i] : i \in 1..Len(after)}

\* C26: a tick adds at most one header to a chain's store; and a tick that
\* finds the provider two or more blocks above the tail and stores a header
\* leaves the header numbered tail + 1 in the store, the first of the blocks
\* between the old tail and the provider's height, which the following ticks
\* are to follow up to that height.
C26_CatchesUpBlockByBlock ==
    [][\A p \in ProviderSet :
          LET c == ChainId(p)
              hs == headers[c]
              after == headers'[c]
          IN TickStep
             => /\ Len(after) <= Len(hs) + 1
                /\ (/\ hs # <<>>
                    /\ call'.op = "next_event"
                    /\ call'.height[p] # NoHeight
                    /\ call'.height[p] >= Last(hs).block_number + 2
                    /\ tick'[p] \in AppendedOutcomes)
                   => \E i \in 1..Len(after) :
                         after[i].block_number = Last(hs).block_number + 1]_vars

\* C27: the reorg resolution of a tick removes no stored header whose number
\* is at or below the chain's finalized height at the start of the tick.
C27_FinalizedSurviveReorg ==
    [][\A p \in ProviderSet :
          LET c == ChainId(p)
          IN (TickStep /\ tick'[p] \in {"reorg", "reorg_send_blocked"})
             => \A h \in Dropped(headers[c], headers'[c]) :
                   h.block_number > finalized[c]]_vars

\* C28: a tick's send on the event channel always completes, the channel
\* never being full when a tick sends: no tick is left waiting in a send.
C28_SendCompletes ==
    /\ lc_pc # "send"
    /\ \A p \in ProviderSet :
          tick[p] \notin {"reorg_send_blocked", "newblock_send_blocked"}

\* C29: a next_event call whose one poll left the event queue empty does not
\* wait in recv forever: whatever heights the providers have reached, the
\* awaited call comes to hand the caller an event.
C29_AwaitedCallReturns ==
    (lc_pc = "recv" /\ event_rx = <<>>) ~> (lc_pc = "idle" /\ returned # NoEvent)

====
